---- MODULE Spec2Model ----
(***************************************************************************)
(* The AI gateway service of apps/ai-gateway/main.py: a FastAPI            *)
(* application with a CORS middleware and three GET endpoints.  A request  *)
(* travels through the ASGI stack the file builds: the CORS middleware     *)
(* (which answers preflight requests itself), the router (full match,      *)
(* method mismatch, trailing-slash redirect, not found), the endpoint, and *)
(* the CORS send wrapper that adds the response headers.  Each stage is a  *)
(* step of its own, so requests on different connections interleave.       *)
(***************************************************************************)
EXTENDS Integers, Sequences, FiniteSets, TLC

VARIABLES routes, clock, pc, req, matched, invoked, resp

vars == <<routes, clock, pc, req, matched, invoked, resp>>

\* ------------------------------------------------------------ bounds

\* Connections the server handles at the same time.
MaxInflight == 2
\* Wall-clock ticks the environment may take.
MaxClock == 2

Slots == 1..MaxInflight

\* ------------------------------------------------------------ values

\* A header the request does not carry.
NoHeader == "<absent>"

\* A path is the list of its segments after the leading "/", so that a
\* trailing slash is an empty last segment: "/health" is <<"health">>,
\* "/health/" is <<"health", "">> and "/" is <<"">>.
HealthPath == <<"health">>
RootPath == <<"">>
HotReloadPath == <<"test-hot-reload">>
TtsPath == <<"tts">>
SttPath == <<"stt">>
LlmPath == <<"llm">>

NoReq ==
    [method |-> "-", path |-> <<>>, query |-> "", origin |-> NoHeader, acrm |-> NoHeader,
     acrh |-> NoHeader]

EmptyHeaders == [h \in {} |-> ""]

NoResp == [status |-> 0, body |-> [none |-> TRUE], headers |-> EmptyHeaders]

\* ------------------------------------------------------------ application

\* app = FastAPI(title=..., description=..., version="1.0.0")
app == [title |-> "AI Gateway Service",
        description |-> "AI service gateway for pronunciation assistant",
        version |-> "1.0.0"]

\* The routes FastAPI's constructor adds when docs_url, redoc_url and
\* openapi_url keep their defaults, as they do here; they answer GET and HEAD.
default_routes ==
    << [path |-> <<"openapi.json">>, methods |-> {"GET", "HEAD"}, endpoint |-> "openapi"],
       [path |-> <<"docs">>, methods |-> {"GET", "HEAD"}, endpoint |-> "swagger_ui_html"],
       [path |-> <<"docs", "oauth2-redirect">>, methods |-> {"GET", "HEAD"},
        endpoint |-> "swagger_ui_redirect"],
       [path |-> <<"redoc">>, methods |-> {"GET", "HEAD"}, endpoint |-> "redoc_html"] >>

\* Variant: /health registered with @app.post instead of @app.get.
registered_routes_post_health ==
    << [path |-> HealthPath, methods |-> {"POST"}, endpoint |-> "health_check"],
       [path |-> RootPath, methods |-> {"GET"}, endpoint |-> "root"],
       [path |-> HotReloadPath, methods |-> {"GET"}, endpoint |-> "test_hot_reload"] >>

\* Variant: the endpoints registered with @app.api_route for every method.
registered_routes_any_method ==
    << [path |-> HealthPath, methods |-> {"GET", "HEAD", "POST", "PUT", "DELETE", "OPTIONS"},
        endpoint |-> "health_check"],
       [path |-> RootPath, methods |-> {"GET", "HEAD", "POST", "PUT", "DELETE", "OPTIONS"},
        endpoint |-> "root"],
       [path |-> HotReloadPath, methods |-> {"GET", "HEAD", "POST", "PUT", "DELETE", "OPTIONS"},
        endpoint |-> "test_hot_reload"] >>

\* @app.get("/health"), @app.get("/"), @app.get("/test-hot-reload"); the
\* /tts, /stt and /llm decorators are commented out and register nothing.
registered_routes ==
    << [path |-> HealthPath, methods |-> {"GET"}, endpoint |-> "health_check"],
       [path |-> RootPath, methods |-> {"GET"}, endpoint |-> "root"],
       [path |-> HotReloadPath, methods |-> {"GET"}, endpoint |-> "test_hot_reload"] >>

\* allow_origins=["http://localhost:3000", "http://localhost:4000"]
allow_origins == {"http://localhost:3000", "http://localhost:4000"}

\* allow_credentials=True
allow_credentials == TRUE

\* allow_methods=["*"]: the middleware expands "*" to its list of methods.
allow_methods == {"DELETE", "GET", "HEAD", "OPTIONS", "PATCH", "POST", "PUT"}

\* allow_headers=["*"]: every requested header is allowed.
allow_all_headers == TRUE

\* ------------------------------------------------------------ endpoints

\* Variant: a health payload that reports whether the server is busy.
health_check_load ==
    [status |-> IF Cardinality({t \in Slots : pc[t] # "idle"}) > 1 THEN "busy" ELSE "ok",
     timestamp |-> "2024-01-01T00:00:00Z",
     service |-> "ai-gateway",
     version |-> "1.0.0"]

\* Variant: a health payload stamped with the current time.
health_check_clock ==
    [status |-> "ok",
     timestamp |-> IF clock = 0 THEN "2024-01-01T00:00:00Z" ELSE "2024-01-01T00:00:01Z",
     service |-> "ai-gateway",
     version |-> "1.0.0"]

\* async def health_check()
health_check ==
    [status |-> "ok",
     timestamp |-> "2024-01-01T00:00:00Z",
     service |-> "ai-gateway",
     version |-> "1.0.0"]

\* Variant: an empty root message.
root_empty == [message |-> ""]

\* Variant: a root message that depends on the other requests in flight.
root_shared ==
    [message |-> IF \E t \in Slots : pc[t] = "done"
                 THEN "AI Gateway Service has served requests"
                 ELSE "AI Gateway Service is running"]

\* async def root()
root == [message |-> "AI Gateway Service is running"]

\* Variant: the hot-reload message without its exclamation mark.
test_hot_reload_typo ==
    [message |-> "Hot reload is working", timestamp |-> "2024-01-01T00:00:00Z"]

\* Variant: the hot-reload payload without its timestamp.
test_hot_reload_no_timestamp == [message |-> "Hot reload is working!"]

\* async def test_hot_reload()
test_hot_reload ==
    [message |-> "Hot reload is working!", timestamp |-> "2024-01-01T00:00:00Z"]

\* The endpoints of this file, as opposed to the framework's own.
OwnEndpoints == {"health_check", "root", "test_hot_reload"}

Response(status, body, headers) == [status |-> status, body |-> body, headers |-> headers]

\* What the matched endpoint (or the router's fallback) answers.  The
\* handlers take no parameters: nothing of the request reaches them.
EndpointResponse(name, rt) ==
    CASE name = "health_check" -> Response(200, health_check, EmptyHeaders)
      [] name = "root" -> Response(200, root, EmptyHeaders)
      [] name = "test_hot_reload" -> Response(200, test_hot_reload, EmptyHeaders)
      [] name \in {"openapi", "swagger_ui_html", "swagger_ui_redirect", "redoc_html"} ->
            Response(200, [document |-> name, title |-> app.title, version |-> app.version],
                     EmptyHeaders)
      [] name = "method_not_allowed" ->
            Response(405, [detail |-> "Method Not Allowed"], "allow" :> rt.methods)
      [] name = "redirect_slashes" ->
            Response(307, [text |-> ""], "location" :> rt)
      [] OTHER -> Response(404, [detail |-> "Not Found"], EmptyHeaders)

\* ------------------------------------------------------------ router

\* Indices of the routes whose path matches, whatever the method.
PathMatches(rs, path) == {i \in 1..Len(rs) : rs[i].path = path}

\* Indices of the routes that match path and method.
FullMatches(rs, path, method) == {i \in PathMatches(rs, path) : method \in rs[i].methods}

First(S) == CHOOSE i \in S : \A j \in S : i <= j

\* The path with its trailing slash removed (all of them) or added.
RECURSIVE RStripSlash(_)
RStripSlash(path) ==
    IF Len(path) > 0 /\ path[Len(path)] = ""
    THEN RStripSlash(SubSeq(path, 1, Len(path) - 1))
    ELSE path

ToggleSlash(path) ==
    IF path[Len(path)] = "" THEN RStripSlash(path) ELSE Append(path, "")

\* Variant: a catch-all route, so that an unknown path is served by root.
RouterMatchCatchAll(rs, r) ==
    IF FullMatches(rs, r.path, r.method) # {}
    THEN [kind |-> rs[First(FullMatches(rs, r.path, r.method))].endpoint,
          arg |-> rs[First(FullMatches(rs, r.path, r.method))]]
    ELSE IF PathMatches(rs, r.path) # {}
    THEN [kind |-> "method_not_allowed", arg |-> rs[First(PathMatches(rs, r.path))]]
    ELSE [kind |-> "root", arg |-> [path |-> r.path, query |-> r.query]]

\* The router's decision for a request: the first route matching path and
\* method; else the first route matching the path alone, which answers 405;
\* else, unless the path is "/", a redirect when the path with its trailing
\* slash toggled matches some route under any method; else 404.
RouterMatch(rs, r) ==
    IF FullMatches(rs, r.path, r.method) # {}
    THEN [kind |-> rs[First(FullMatches(rs, r.path, r.method))].endpoint,
          arg |-> rs[First(FullMatches(rs, r.path, r.method))]]
    ELSE IF PathMatches(rs, r.path) # {}
    THEN [kind |-> "method_not_allowed", arg |-> rs[First(PathMatches(rs, r.path))]]
    ELSE IF r.path # RootPath /\ PathMatches(rs, ToggleSlash(r.path)) # {}
    THEN [kind |-> "redirect_slashes",
          arg |-> [path |-> ToggleSlash(r.path), query |-> r.query]]
    ELSE [kind |-> "not_found", arg |-> [path |-> r.path, query |-> r.query]]

NoMatch == [kind |-> "-", arg |-> [path |-> <<>>, query |-> ""]]

\* ------------------------------------------------------------ CORS middleware

\* Variant: allow_origins=["*"].
is_allowed_origin_any(origin) == TRUE

\* Whether the allowlist holds the origin, compared as a whole string.
is_allowed_origin(origin) == origin \in allow_origins

\* A preflight request: OPTIONS carrying Origin and Access-Control-Request-Method.
IsPreflight(r) == r.origin # NoHeader /\ r.method = "OPTIONS" /\ r.acrm # NoHeader

CredentialsHeader ==
    IF allow_credentials THEN "access-control-allow-credentials" :> "true" ELSE EmptyHeaders

\* The headers every preflight answer carries.
preflight_headers ==
    ("vary" :> "Origin") @@ ("access-control-allow-methods" :> allow_methods)
        @@ ("access-control-max-age" :> "600") @@ CredentialsHeader

\* The middleware's own answer to a preflight request.
preflight_response(r) ==
    LET failures == (IF is_allowed_origin(r.origin) THEN {} ELSE {"origin"})
                    \cup (IF r.acrm \in allow_methods THEN {} ELSE {"method"})
        requested == IF allow_all_headers /\ r.acrh # NoHeader
                     THEN "access-control-allow-headers" :> r.acrh
                     ELSE EmptyHeaders
        headers == IF is_allowed_origin(r.origin)
                   THEN ("access-control-allow-origin" :> r.origin) @@ requested
                            @@ preflight_headers
                   ELSE requested @@ preflight_headers
    IN  IF failures # {}
        THEN Response(400, [text |-> "Disallowed CORS", failures |-> failures], headers)
        ELSE Response(200, [text |-> "OK"], headers)

\* The headers the send wrapper adds to the response of a request with an Origin.
simple_headers(origin) ==
    IF is_allowed_origin(origin)
    THEN ("access-control-allow-origin" :> origin) @@ ("vary" :> "Origin") @@ CredentialsHeader
    ELSE CredentialsHeader

\* The response as sent: untouched without an Origin, else with the CORS headers.
SentResponse(r, inner) ==
    IF r.origin = NoHeader
    THEN inner
    ELSE [inner EXCEPT !.headers = simple_headers(r.origin) @@ inner.headers]

\* ------------------------------------------------------------ requests

Methods == {"GET", "HEAD", "POST", "PUT", "DELETE", "OPTIONS"}

Paths == {HealthPath, RootPath, HotReloadPath, TtsPath, SttPath, LlmPath,
          <<"docs">>, <<"openapi.json">>, <<"redoc">>, <<"docs", "oauth2-redirect">>,
          <<"health", "">>, <<"tts", "">>, <<"nope">>}

Origins == {NoHeader, "http://localhost:3000", "http://localhost:4000",
            "https://localhost:3000", "http://evil.example"}

\* Values of Access-Control-Request-Method: absent, a method, and a token
\* that is no method the middleware allows.
RequestMethods == {NoHeader, "POST", "TRACE"}

\* Values of Access-Control-Request-Headers.
RequestHeaders == {NoHeader, "x-api-key"}

Queries == {"", "verbose=1"}

Requests ==
    [method : Methods, path : Paths, query : Queries, origin : Origins, acrm : RequestMethods,
     acrh : RequestHeaders]

\* GET requests to the three endpoints of this file, from no origin, an
\* allowed one and a foreign one.
ConcurrentRequests ==
    [method : {"GET"}, path : {HealthPath, RootPath, HotReloadPath}, query : Queries,
     origin : {NoHeader, "http://localhost:3000", "http://evil.example"}, acrm : {NoHeader},
     acrh : {NoHeader}]

\* ------------------------------------------------------------ state machine

Init ==
    /\ routes = default_routes \o registered_routes
    /\ clock = 0
    /\ pc = [s \in Slots |-> "idle"]
    /\ req = [s \in Slots |-> NoReq]
    /\ matched = [s \in Slots |-> NoMatch]
    /\ invoked = [s \in Slots |-> "none"]
    /\ resp = [s \in Slots |-> NoResp]

\* A request arrives on a free connection.
Receive(s, r) ==
    /\ pc[s] = "idle"
    /\ pc' = [pc EXCEPT ![s] = "cors"]
    /\ req' = [req EXCEPT ![s] = r]
    /\ UNCHANGED <<routes, clock, matched, invoked, resp>>

\* A client that sends one request at a time.
ReceiveNext(s) ==
    /\ \A t \in Slots : pc[t] = "idle"
    /\ \E r \in Requests : Receive(s, r)

\* Clients that send while other requests are in flight.
ReceiveConcurrent(s) ==
    \E r \in ConcurrentRequests : Receive(s, r)

\* CORSMiddleware.__call__: without an Origin the request passes through; a
\* preflight request is answered here and never reaches the router; any other
\* request goes on, its response to be wrapped.
CorsDispatch(s) ==
    /\ pc[s] = "cors"
    /\ IF IsPreflight(req[s])
       THEN /\ resp' = [resp EXCEPT ![s] = preflight_response(req[s])]
            /\ pc' = [pc EXCEPT ![s] = "done"]
       ELSE /\ pc' = [pc EXCEPT ![s] = "router"]
            /\ UNCHANGED resp
    /\ UNCHANGED <<routes, clock, req, matched, invoked>>

\* The router picks the endpoint or its fallback.
RouterDispatch(s) ==
    /\ pc[s] = "router"
    /\ matched' = [matched EXCEPT ![s] = RouterMatch(routes, req[s])]
    /\ pc' = [pc EXCEPT ![s] = "endpoint"]
    /\ UNCHANGED <<routes, clock, req, invoked, resp>>

\* The matched endpoint runs (or the fallback answers) and returns its response.
Handle(s) ==
    /\ pc[s] = "endpoint"
    /\ invoked' = [invoked EXCEPT ![s] =
                      IF matched[s].kind \in OwnEndpoints THEN matched[s].kind ELSE "none"]
    /\ resp' = [resp EXCEPT ![s] = EndpointResponse(matched[s].kind, matched[s].arg)]
    /\ pc' = [pc EXCEPT ![s] = "send"]
    /\ UNCHANGED <<routes, clock, req, matched>>

\* The response goes out through the CORS send wrapper.
Send(s) ==
    /\ pc[s] = "send"
    /\ resp' = [resp EXCEPT ![s] = SentResponse(req[s], resp[s])]
    /\ pc' = [pc EXCEPT ![s] = "done"]
    /\ UNCHANGED <<routes, clock, req, matched, invoked>>

\* The client has read the response; the connection is free again.
Collect(s) ==
    /\ pc[s] = "done"
    /\ pc' = [pc EXCEPT ![s] = "idle"]
    /\ req' = [req EXCEPT ![s] = NoReq]
    /\ matched' = [matched EXCEPT ![s] = NoMatch]
    /\ invoked' = [invoked EXCEPT ![s] = "none"]
    /\ resp' = [resp EXCEPT ![s] = NoResp]
    /\ UNCHANGED <<routes, clock>>

\* Time passes.
Tick ==
    /\ clock < MaxClock
    /\ clock' = clock + 1
    /\ UNCHANGED <<routes, pc, req, matched, invoked, resp>>

Serve(s) == CorsDispatch(s) \/ RouterDispatch(s) \/ Handle(s) \/ Send(s) \/ Collect(s)

Next ==
    \/ \E s \in Slots : ReceiveNext(s)
    \/ \E s \in Slots : Serve(s)
    \/ Tick

NextConcurrent ==
    \/ \E s \in Slots : ReceiveConcurrent(s)
    \/ \E s \in Slots : Serve(s)

\* Requests one at a time, over the whole request space, while time passes.
Spec == Init /\ [][Next]_vars

\* Requests to the three endpoints on all connections at once.
SpecConcurrent == Init /\ [][NextConcurrent]_vars

\* ------------------------------------------------------------ properties

Done(s) == pc[s] = "done"

IsGet(s, path) == req[s].method = "GET" /\ req[s].path = path

OwnPaths == {HealthPath, RootPath, HotReloadPath}

AllowOriginHeader == "access-control-allow-origin"

\* The response a request gets when it is the only one the server handles.
Alone(r) ==
    IF IsPreflight(r)
    THEN preflight_response(r)
    ELSE SentResponse(r, EndpointResponse(RouterMatch(default_routes \o registered_routes, r).kind,
                                          RouterMatch(default_routes \o registered_routes, r).arg))

\* C1: every completed GET /health request has status 200 and a body whose
\* status field is "ok".
C1_HealthOk ==
    \A s \in Slots :
        Done(s) /\ IsGet(s, HealthPath) =>
            /\ resp[s].status = 200
            /\ "status" \in DOMAIN resp[s].body
            /\ resp[s].body.status = "ok"

C1_Witness ==
    \E s \in Slots :
        /\ Done(s) /\ IsGet(s, HealthPath) /\ invoked[s] = "health_check"
        /\ req[s].origin = "http://evil.example" /\ req[s].query # "" /\ clock > 0

\* C2: every completed GET / request has status 200 and a body whose message
\* field is a non-empty string.
C2_RootMessage ==
    \A s \in Slots :
        Done(s) /\ IsGet(s, RootPath) =>
            /\ resp[s].status = 200
            /\ "message" \in DOMAIN resp[s].body
            /\ resp[s].body.message # ""

C2_Witness ==
    \E s \in Slots : Done(s) /\ IsGet(s, RootPath) /\ invoked[s] = "root" /\ resp[s].status = 200

\* C3: every completed GET /test-hot-reload request has status 200 and a
\* body whose message field is "Hot reload is working!".
C3_HotReloadMessage ==
    \A s \in Slots :
        Done(s) /\ IsGet(s, HotReloadPath) =>
            /\ resp[s].status = 200
            /\ "message" \in DOMAIN resp[s].body
            /\ resp[s].body.message = "Hot reload is working!"

C3_Witness ==
    \E s \in Slots :
        Done(s) /\ IsGet(s, HotReloadPath) /\ invoked[s] = "test_hot_reload"
            /\ resp[s].status = 200

\* A path no route answers, as given or with its trailing slash toggled.
Undefined(path) ==
    \A i \in 1..Len(routes) : routes[i].path # path /\ routes[i].path # ToggleSlash(path)

\* C4 as stated: every completed request to a path other than /health, / and
\* /test-hot-reload has status 404 and invoked no handler.
C4_Original ==
    \A s \in Slots :
        Done(s) /\ req[s].path \notin OwnPaths =>
            resp[s].status = 404 /\ invoked[s] = "none"

\* C4, amended: a completed request whose path no route answers, as given or
\* with its trailing slash toggled, has status 404 unless it is a CORS
\* preflight request; POST /tts, POST /stt and POST /llm have status 404; in
\* each of these cases no handler of the file was invoked, and a handler is
\* only ever invoked for its own path.
C4_UndefinedRoutes ==
    \A s \in Slots :
        Done(s) =>
            /\ (Undefined(req[s].path) /\ ~IsPreflight(req[s]) =>
                    resp[s].status = 404 /\ invoked[s] = "none")
            /\ (req[s].method = "POST" /\ req[s].path \in {TtsPath, SttPath, LlmPath} =>
                    resp[s].status = 404 /\ invoked[s] = "none")
            /\ (req[s].path \notin OwnPaths => invoked[s] = "none")

C4_Witness ==
    \E s \in Slots :
        /\ Done(s) /\ req[s].method = "POST" /\ req[s].path = TtsPath
        /\ req[s].origin = "http://localhost:3000"
        /\ resp[s].status = 404 /\ resp[s].body = [detail |-> "Not Found"]

\* C5 as stated: any two completed GET /health requests have identical
\* responses, whatever their headers or query.
C5_Original ==
    \A s, t \in Slots :
        Done(s) /\ Done(t) /\ IsGet(s, HealthPath) /\ IsGet(t, HealthPath) =>
            resp[s] = resp[t]

\* Handling GET /health on connection s leaves the application and every
\* other connection as they were.
HealthHandled(s) ==
    pc[s] = "endpoint" /\ matched[s].kind = "health_check" /\ pc'[s] = "send"

OthersUnchanged(s) ==
    \A t \in Slots \ {s} :
        /\ pc'[t] = pc[t] /\ req'[t] = req[t] /\ matched'[t] = matched[t]
        /\ invoked'[t] = invoked[t] /\ resp'[t] = resp[t]

\* C5, amended: any two completed GET /health requests have the same status
\* and the same body, whatever their headers or query and whatever ran
\* between them; the status is never an error status; the response headers
\* differ only in the CORS headers, which depend on the request's Origin; and
\* handling the request changes neither the application nor another request.
C5_HealthFixedPayload ==
    /\ [](\A s, t \in Slots :
            Done(s) /\ Done(t) /\ IsGet(s, HealthPath) /\ IsGet(t, HealthPath) =>
                /\ resp[s].status = resp[t].status
                /\ resp[s].body = resp[t].body
                /\ resp[s].status < 400
                /\ (req[s].origin = req[t].origin => resp[s].headers = resp[t].headers))
    /\ [][\A s \in Slots :
            HealthHandled(s) => routes' = routes /\ clock' = clock /\ OthersUnchanged(s)]_vars

C5_Witness ==
    \E s, t \in Slots :
        /\ Done(s) /\ Done(t) /\ IsGet(s, HealthPath) /\ IsGet(t, HealthPath)
        /\ req[s].origin = "http://localhost:3000" /\ req[t].origin = NoHeader
        /\ req[s].query # req[t].query
        /\ resp[s].body = resp[t].body /\ resp[s].headers # resp[t].headers

\* C6: the body of a completed GET /health has exactly the keys status,
\* timestamp, service and version; of GET /, exactly message; of GET
\* /test-hot-reload, exactly message and timestamp.
C6_FieldSets ==
    \A s \in Slots :
        Done(s) =>
            /\ (IsGet(s, HealthPath) =>
                    DOMAIN resp[s].body = {"status", "timestamp", "service", "version"})
            /\ (IsGet(s, RootPath) => DOMAIN resp[s].body = {"message"})
            /\ (IsGet(s, HotReloadPath) => DOMAIN resp[s].body = {"message", "timestamp"})

C6_Witness ==
    \E s \in Slots :
        Done(s) /\ IsGet(s, HotReloadPath) /\ DOMAIN resp[s].body = {"message", "timestamp"}

\* C7: under every interleaving, a completed request has the response it
\* gets when handled alone, and two completed requests that are equal have
\* equal responses, whichever completed first.
C7_NoInterference ==
    \A s \in Slots :
        Done(s) =>
            /\ resp[s] = Alone(req[s])
            /\ \A t \in Slots : Done(t) /\ req[t] = req[s] => resp[t] = resp[s]

C7_Witness ==
    \E s, t \in Slots :
        /\ s # t /\ Done(s) /\ pc[t] = "send"
        /\ IsGet(s, RootPath) /\ IsGet(t, HealthPath)
        /\ resp[s] = Alone(req[s])

\* C8: a completed response carries Access-Control-Allow-Origin exactly when
\* the request's Origin is http://localhost:3000 or http://localhost:4000,
\* and then the header echoes that origin; this holds for every method, for
\* preflight requests and for error responses.
C8_CorsAllowlist ==
    \A s \in Slots :
        Done(s) =>
            /\ (AllowOriginHeader \in DOMAIN resp[s].headers <=>
                    req[s].origin \in {"http://localhost:3000", "http://localhost:4000"})
            /\ (AllowOriginHeader \in DOMAIN resp[s].headers =>
                    resp[s].headers[AllowOriginHeader] = req[s].origin)

C8_Witness ==
    \E s \in Slots :
        /\ Done(s) /\ req[s].origin = "https://localhost:3000"
        /\ req[s].method = "OPTIONS" /\ req[s].acrm = "POST" /\ req[s].acrh # NoHeader
        /\ resp[s].status = 400
        /\ AllowOriginHeader \notin DOMAIN resp[s].headers

\* C9: the timestamp of a completed GET /health and of a completed GET
\* /test-hot-reload is "2024-01-01T00:00:00Z" whatever the clock shows, and
\* the version of GET /health is the version the application declares, "1.0.0".
C9_FixedTimestampVersion ==
    \A s \in Slots :
        Done(s) =>
            /\ (IsGet(s, HealthPath) =>
                    /\ resp[s].body.timestamp = "2024-01-01T00:00:00Z"
                    /\ resp[s].body.version = app.version
                    /\ resp[s].body.version = "1.0.0")
            /\ (IsGet(s, HotReloadPath) => resp[s].body.timestamp = "2024-01-01T00:00:00Z")

C9_Witness ==
    \E s \in Slots :
        /\ Done(s) /\ IsGet(s, HealthPath) /\ clock = MaxClock /\ MaxClock > 0
        /\ resp[s].body.timestamp = "2024-01-01T00:00:00Z"

\* The 200 payloads of the three endpoints.
Payloads == {health_check, root, test_hot_reload}

\* C10 as stated: a completed request to /health, / or /test-hot-reload with a
\* method other than GET invoked no handler, does not carry the payload, and
\* has status 405.
C10_Original ==
    \A s \in Slots :
        Done(s) /\ req[s].path \in OwnPaths /\ req[s].method # "GET" =>
            /\ invoked[s] = "none"
            /\ resp[s].body \notin Payloads
            /\ resp[s].status = 405

\* C10, amended: a completed request to /health, / or /test-hot-reload with a
\* method other than GET invoked no handler and does not carry the payload;
\* its status is 405, except that a CORS preflight request (OPTIONS with
\* Origin and Access-Control-Request-Method) is answered by the CORS
\* middleware with 200 "OK" or 400; it is never 404.
C10_GetOnly ==
    \A s \in Slots :
        Done(s) /\ req[s].path \in OwnPaths /\ req[s].method # "GET" =>
            /\ invoked[s] = "none"
            /\ resp[s].body \notin Payloads
            /\ resp[s].status # 404
            /\ (~IsPreflight(req[s]) => resp[s].status = 405)
            /\ (IsPreflight(req[s]) =>
                    /\ resp[s].status \in {200, 400}
                    /\ "text" \in DOMAIN resp[s].body)

C10_Witness ==
    \E s \in Slots :
        /\ Done(s) /\ req[s].path = HealthPath /\ req[s].method = "DELETE"
        /\ resp[s].status = 405 /\ invoked[s] = "none"

====
